---- MODULE Spec2Model ----
(***************************************************************************)
(* ADA-RVT-TOOLS: pyRevit pushbutton scripts.  Each script is a sequence   *)
(* of Revit API calls; one run of one script is one behaviour.  The Revit  *)
(* document is modelled by the few facts each script reads or writes, a    *)
(* Transaction by its status and by the number of Start / Commit /         *)
(* RollBack calls made on it.  An API call that can fail is a              *)
(* nondeterministic choice between its result and an exception.            *)
(***************************************************************************)
EXTENDS Integers, Sequences, FiniteSets, TLC

\* ------------------------------------------------------------------ bounds
NumWorksets == 2
NumElems == 2
NumOpenings == 2
MaxCoord == 1
NumInstances == 2
MaxVolume == 1
NumViews == 3
NumTags == 1
MaxRuns == 2
NumCsvElems == 2
NumCsvGroups == 2

Worksets == 1..NumWorksets
Elems == 1..NumElems
Openings == 1..NumOpenings
Coords == 0..MaxCoord
Instances == 1..NumInstances
Volumes == 0..MaxVolume
Views == 1..NumViews
Tags == 1..NumTags
CsvElems == 1..NumCsvElems
CsvGroups == 1..NumCsvGroups

\* Autodesk.Revit.UI.TaskDialogResult, as far as the script can tell the
\* members apart: Yes, No, and the members that are neither (Cancel, None).
TaskDialogResult == {"Yes", "No", "Cancel"}

VARIABLES
  script,               \* which pushbutton was clicked
  pc,                   \* position in the script
  txStatus,             \* Transaction status: none, started, committed, rolledback
  nStart, nCommit, nRollBack,  \* Start()s, Commit()s and roll-backs of the Transaction
  unhandled,            \* the script ended with an unhandled exception
  cancelled,            \* the user cancelled a pick
  idx,                  \* loop position (1-based) of the element loop
  raised,               \* loop positions whose processing raised an exception
  \* Workset Elements Delete
  IsWorkshared, nameOf, wsOf,
  workset_data, options, selected_options, selected_workset_ids,
  result, all_elements, deleted, deleted_count, non_deletable_count,
  \* Openings Caracterization
  pos, opeNumber0, opeNumber, element_data, numbered, level_success,
  \* Replace & Align
  srcInView, hasTarget, source_instances, sourceLeft, newInstances,
  replaced_count, failed_count,
  \* Intersection Mass (both scripts)
  struct_element, mep_element, volume, masses,
  \* Openings (two picks)
  selection1, selection2, element_ids_1,
  \* Add Views to Sheet
  selected_views, viewports, success_count, successPrinted,
  \* Section generator
  selected_elems, new_views,
  \* Color MEP Tags
  tagCategory, hostLink, mep_tags, tagColor,
  \* Toggle Grids / Levels / Sections / Scope Boxes
  category, hidden0, hidden, hiddenBefore, current_state, toggles, runs,
  \* CSV exports
  queried, groupOf, inSchedules, csv_items, csv_data

sharedVars == <<script, pc, txStatus, nStart, nCommit, nRollBack, unhandled,
                cancelled, idx, raised>>
wsInputs == <<IsWorkshared, nameOf, wsOf>>
wsVars == <<workset_data, options, selected_options, selected_workset_ids,
            result, all_elements, deleted, deleted_count, non_deletable_count>>
numInputs == <<pos, opeNumber0>>
numVars == <<opeNumber, element_data, numbered, level_success>>
repInputs == <<srcInView, hasTarget>>
repVars == <<source_instances, sourceLeft, newInstances, replaced_count, failed_count>>
massVars == <<struct_element, mep_element, volume, masses>>
opVars == <<selection1, selection2, element_ids_1>>
avVars == <<selected_views, viewports, success_count, successPrinted>>
secVars == <<selected_elems, new_views>>
tcInputs == <<tagCategory, hostLink>>
tcVars == <<mep_tags, tagColor>>
togVars == <<category, hidden0, hidden, hiddenBefore, current_state, toggles, runs>>
csvInputs == <<queried, groupOf, inSchedules>>
csvVars == <<csv_items, csv_data>>
laterVars == <<tcInputs, tcVars, togVars, csvInputs, csvVars>>
wsAll == <<wsInputs, wsVars>>
numAll == <<numInputs, numVars>>
repAll == <<repInputs, repVars>>
vars == <<sharedVars, wsAll, numAll, repAll, massVars, opVars, avVars, secVars, laterVars>>

\* ----------------------------------------------------------------- helpers
Range(s) == {s[i] : i \in 1..Len(s)}

\* the elements of S, a set of integers, as a list in increasing order
ToList(S, U) == SelectSeq([e \in U |-> e], LAMBDA e : e \in S)

\* list.index(x): the position of the first occurrence
IndexOf(s, x) == CHOOSE i \in 1..Len(s) : s[i] = x /\ \A j \in 1..(i-1) : s[j] # x

\* the sub-sequence of s at the positions in P, in list order
RECURSIVE Pick(_, _)
Pick(s, P) ==
  IF s = <<>> THEN <<>>
  ELSE LET rest == Pick(SubSeq(s, 1, Len(s) - 1), P)
       IN IF Len(s) \in P THEN Append(rest, s[Len(s)]) ELSE rest

\* Transaction calls
TxStart == /\ txStatus' = "started"
           /\ nStart' = nStart + 1
           /\ UNCHANGED <<nCommit, nRollBack>>
TxCommit == /\ txStatus' = "committed"
            /\ nCommit' = nCommit + 1
            /\ UNCHANGED <<nStart, nRollBack>>
TxRollBack == /\ txStatus' = "rolledback"
              /\ nRollBack' = nRollBack + 1
              /\ UNCHANGED <<nStart, nCommit>>
TxSame == UNCHANGED <<txStatus, nStart, nCommit, nRollBack>>

\* every script's state but the named one's
FrameWs == UNCHANGED <<numAll, repAll, massVars, opVars, avVars, secVars, laterVars>>
FrameNum == UNCHANGED <<wsAll, repAll, massVars, opVars, avVars, secVars, laterVars>>
FrameRep == UNCHANGED <<wsAll, numAll, massVars, opVars, avVars, secVars, laterVars>>
FrameMass == UNCHANGED <<wsAll, numAll, repAll, opVars, avVars, secVars, laterVars>>
FrameOp == UNCHANGED <<wsAll, numAll, repAll, massVars, avVars, secVars, laterVars>>
FrameAv == UNCHANGED <<wsAll, numAll, repAll, massVars, opVars, secVars, laterVars>>
FrameSec == UNCHANGED <<wsAll, numAll, repAll, massVars, opVars, avVars, laterVars>>
earlierVars == <<wsAll, numAll, repAll, massVars, opVars, avVars, secVars>>
FrameTc == UNCHANGED <<earlierVars, togVars, csvInputs, csvVars>>
FrameTog == UNCHANGED <<earlierVars, tcInputs, tcVars, csvInputs, csvVars>>
FrameCsv == UNCHANGED <<earlierVars, tcInputs, tcVars, togVars>>

SharedInit(s) ==
  /\ script = s /\ pc = "start" /\ txStatus = "none"
  /\ nStart = 0 /\ nCommit = 0 /\ nRollBack = 0
  /\ unhandled = FALSE /\ cancelled = FALSE /\ idx = 1 /\ raised = {}

\* the state of the scripts that are not running
WsIdle ==
  /\ workset_data = <<>> /\ options = <<>> /\ selected_options = <<>>
  /\ selected_workset_ids = <<>> /\ result = "unset" /\ all_elements = <<>>
  /\ deleted = {} /\ deleted_count = 0 /\ non_deletable_count = 0
WsInputsIdle ==
  /\ IsWorkshared = FALSE
  /\ nameOf = [w \in Worksets |-> w]
  /\ wsOf = [e \in Elems |-> 1]
NumIdle == /\ opeNumber = opeNumber0
           /\ element_data = <<>> /\ numbered = <<>> /\ level_success = 0
NumInputsIdle ==
  /\ pos = [e \in Openings |-> <<0, 0>>]
  /\ opeNumber0 = [e \in Openings |-> 0]
RepIdle ==
  /\ source_instances = <<>> /\ sourceLeft = srcInView /\ newInstances = {}
  /\ replaced_count = 0 /\ failed_count = 0
RepInputsIdle == srcInView = {} /\ hasTarget = FALSE
MassIdle == struct_element = FALSE /\ mep_element = FALSE /\ volume = -1 /\ masses = 0
OpIdle == selection1 = "undefined" /\ selection2 = "undefined" /\ element_ids_1 = "undefined"
AvIdle == selected_views = <<>> /\ viewports = {} /\ success_count = 0 /\ successPrinted = FALSE
SecIdle == selected_elems = <<>> /\ new_views = {}

\* the categories of the four toggle buttons
ToggleCategories == {"Grids", "Levels", "Sections", "ScopeBoxes"}

\* a tagged reference in the host document; a tag without tagged references
Local == {"local"}
NoRef == {"noRef"}

TcInputsIdle ==
  /\ tagCategory = [t \in Tags |-> "duct"]
  /\ hostLink = [t \in Tags |-> Local]
TcIdle == mep_tags = <<>> /\ tagColor = [t \in Tags |-> "none"]
TogIdle ==
  /\ category = "none"
  /\ hidden0 = [c \in ToggleCategories |-> FALSE]
  /\ hidden = hidden0 /\ hiddenBefore = hidden0
  /\ current_state = FALSE
  /\ toggles = [c \in ToggleCategories |-> 0]
  /\ runs = 0
CsvInputsIdle ==
  /\ queried = {} /\ groupOf = [e \in CsvElems |-> 1] /\ inSchedules = {}
CsvIdle == csv_items = <<>> /\ csv_data = <<>>
LaterIdle == TcInputsIdle /\ TcIdle /\ TogIdle /\ CsvInputsIdle /\ CsvIdle
EarlierIdle ==
  /\ WsInputsIdle /\ WsIdle /\ NumInputsIdle /\ NumIdle /\ RepInputsIdle /\ RepIdle
  /\ MassIdle /\ OpIdle /\ AvIdle /\ SecIdle

\* ------------------------------------------------ Workset Elements Delete
\* FilteredWorksetCollector order (by id), one record per user workset
CollectWorksets(names, ws, gone) ==
  [w \in Worksets |-> [id |-> w, name |-> names[w],
                       count |-> Cardinality({e \in Elems \ gone : ws[e] = w})]]

\* workset_data.sort(key=lambda x: x['name'])  (stable, ascending)
RECURSIVE InsertByName(_, _)
InsertByName(s, x) ==
  IF s = <<>> THEN <<x>>
  ELSE IF Head(s).name <= x.name THEN <<Head(s)>> \o InsertByName(Tail(s), x)
       ELSE <<x>> \o s
RECURSIVE SortByName(_)
SortByName(s) ==
  IF s = <<>> THEN <<>>
  ELSE InsertByName(SortByName(SubSeq(s, 1, Len(s) - 1)), s[Len(s)])

\* "{} ({} elements)".format(w['name'], w['count']): the text shows name and count
OptionsOf(data) == [i \in 1..Len(data) |-> <<data[i].name, data[i].count>>]

\* index = options.index(option); workset_data[index]['id']
SelectedIds(opts, data, sel) == [k \in 1..Len(sel) |-> data[IndexOf(opts, sel[k])].id]

\* a plausible slip: ElementWorksetFilter(id, True), the inverted filter
ElementsNotIn(wid, ws, gone) ==
  SelectSeq([e \in Elems |-> e], LAMBDA e : ws[e] # wid /\ e \notin gone)

\* FilteredElementCollector(doc).WherePasses(ElementWorksetFilter(id, False)).ToElements()
ElementsIn(wid, ws, gone) ==
  SelectSeq([e \in Elems |-> e], LAMBDA e : ws[e] = wid /\ e \notin gone)

RECURSIVE AllElements(_, _, _)
AllElements(ids, ws, gone) ==
  IF ids = <<>> THEN <<>>
  ELSE ElementsIn(Head(ids), ws, gone) \o AllElements(Tail(ids), ws, gone)

\* if result == TaskDialogResult.No: forms.alert(..., exitscript=True)
ConfirmExits(r) == r = "No"

\* a plausible slip: 'break' in the except clauses instead of moving on
WsNextIndexBreak(i, n, failed) == IF failed THEN n + 1 ELSE i + 1

\* the for loop moves to the next element, after an except clause too
WsNextIndex(i, n, failed) == i + 1

InitWorkset ==
  /\ SharedInit("Workset")
  /\ IsWorkshared \in BOOLEAN
  /\ nameOf \in {f \in [Worksets -> Worksets] : \A a, b \in Worksets : a # b => f[a] # f[b]}
  /\ wsOf \in [Elems -> Worksets]
  /\ WsIdle
  /\ NumInputsIdle /\ NumIdle /\ RepInputsIdle /\ RepIdle /\ MassIdle /\ OpIdle /\ AvIdle /\ SecIdle
  /\ LaterIdle

\* lines 35-61: the workshared check, the collection and sort, the option texts
WsCollect ==
  /\ script = "Workset" /\ pc = "start"
  /\ IF ~IsWorkshared
       THEN /\ pc' = "done"
            /\ UNCHANGED <<workset_data, options>>
       ELSE /\ workset_data' = SortByName(CollectWorksets(nameOf, wsOf, deleted))
            /\ options' = OptionsOf(workset_data')
            /\ pc' = "select"
  /\ TxSame /\ FrameWs
  /\ UNCHANGED <<script, unhandled, cancelled, idx, raised, wsInputs, selected_options,
                 selected_workset_ids, result, all_elements, deleted,
                 deleted_count, non_deletable_count>>

\* lines 63-79: the checklist; the user ticks some of the shown options
WsSelect ==
  /\ script = "Workset" /\ pc = "select"
  /\ \E P \in SUBSET (1..Len(options)) :
       /\ selected_options' = Pick(options, P)
       /\ IF P = {}
            THEN /\ pc' = "done"
                 /\ UNCHANGED selected_workset_ids
            ELSE /\ selected_workset_ids' = SelectedIds(options, workset_data, selected_options')
                 /\ pc' = "confirm"
  /\ TxSame /\ FrameWs
  /\ UNCHANGED <<script, unhandled, cancelled, idx, raised, wsInputs, workset_data, options,
                 result, all_elements, deleted, deleted_count, non_deletable_count>>

\* lines 81-113: the 'Confirm Deletion' dialog, the collection, t.Start()
WsConfirm ==
  /\ script = "Workset" /\ pc = "confirm"
  /\ \E r \in TaskDialogResult :
       /\ result' = r
       /\ IF ConfirmExits(r)
            THEN /\ pc' = "done"
                 /\ TxSame
                 /\ UNCHANGED all_elements
            ELSE /\ all_elements' = AllElements(selected_workset_ids, wsOf, deleted)
                 /\ TxStart
                 /\ pc' = "loop"
  /\ FrameWs
  /\ UNCHANGED <<script, unhandled, cancelled, idx, raised, wsInputs, workset_data, options,
                 selected_options, selected_workset_ids, deleted,
                 deleted_count, non_deletable_count>>

\* what one pass of the loop body (lines 124-176) can meet
WsOutcomes == {"invalid", "pinned", "protected", "dependent", "deleteRaises", "raises", "deleted"}

\* lines 123-176: one element of the loop
WsDeleteStep ==
  /\ script = "Workset" /\ pc = "loop" /\ idx <= Len(all_elements)
  /\ \E o \in WsOutcomes :
       /\ IF o = "deleted"
            THEN /\ deleted' = deleted \cup {all_elements[idx]}
                 /\ deleted_count' = deleted_count + 1
                 /\ UNCHANGED non_deletable_count
            ELSE /\ non_deletable_count' = non_deletable_count + 1
                 /\ UNCHANGED <<deleted, deleted_count>>
       /\ raised' = IF o \in {"deleteRaises", "raises"} THEN raised \cup {idx} ELSE raised
       /\ idx' = WsNextIndex(idx, Len(all_elements), o \in {"deleteRaises", "raises"})
  /\ TxSame /\ FrameWs
  /\ UNCHANGED <<script, pc, unhandled, cancelled, wsInputs, workset_data, options,
                 selected_options, selected_workset_ids, result, all_elements>>

\* lines 178-211: t.Commit() and the report
WsCommit ==
  /\ script = "Workset" /\ pc = "loop" /\ idx > Len(all_elements)
  /\ TxCommit
  /\ pc' = "done"
  /\ FrameWs
  /\ UNCHANGED <<script, unhandled, cancelled, idx, raised, wsInputs, wsVars>>

WorksetNext == WsCollect \/ WsSelect \/ WsConfirm \/ WsDeleteStep \/ WsCommit

\* ----------------------------------------------- Openings Caracterization
\* distance = (x * x + y * y) ** 0.5.  The sort only compares distances, and
\* the square root is strictly increasing, so the key is kept as x*x + y*y.
Distance(p) == p[1] * p[1] + p[2] * p[2]

\* a plausible slip: reverse=True left out (closest first)
InsertByDistanceAsc(s, x, p) ==
  LET before == SelectSeq(s, LAMBDA e : Distance(p[e]) <= Distance(p[x]))
      after == SelectSeq(s, LAMBDA e : Distance(p[e]) > Distance(p[x]))
  IN before \o <<x>> \o after

\* element_data.sort(key=lambda item: item['distance'], reverse=True)
\* (stable: equal distances keep the collector's order)
RECURSIVE InsertByDistanceDesc(_, _, _)
InsertByDistanceDesc(s, x, p) ==
  IF s = <<>> THEN <<x>>
  ELSE IF Distance(p[Head(s)]) >= Distance(p[x])
         THEN <<Head(s)>> \o InsertByDistanceDesc(Tail(s), x, p)
         ELSE <<x>> \o s
RECURSIVE SortByDistanceDesc(_, _)
SortByDistanceDesc(s, p) ==
  IF s = <<>> THEN <<>>
  ELSE InsertByDistanceDesc(SortByDistanceDesc(SubSeq(s, 1, Len(s) - 1), p), s[Len(s)], p)

\* a plausible slip: the check for an existing number left out
NeverNumbered(v) == FALSE

\* if ope_number_param.HasValue and ope_number_param.AsInteger() != 0
\* (AsInteger() of a parameter without a value is 0)
AlreadyNumbered(v) == v # 0

\* for index, item in enumerate(element_data, start=1): ... Set(index):
\* the number is the position in the sorted list, whatever was skipped before
NumberFor(index, assignedSoFar) == index

\* the centre points.  The script reads a centre only through x*x + y*y,
\* which does not change when x and y are swapped: of two mirrored points
\* the one with y <= x is kept
Points == {p \in Coords \X Coords : p[2] <= p[1]}

InitNumber ==
  /\ SharedInit("Number")
  /\ pos \in [Openings -> Points]
  /\ \E A \in SUBSET Openings :
       opeNumber0 = [e \in Openings |-> IF e \in A THEN 100 + e ELSE 0]
  /\ NumIdle
  /\ WsInputsIdle /\ WsIdle /\ RepInputsIdle /\ RepIdle /\ MassIdle /\ OpIdle /\ AvIdle /\ SecIdle
  /\ LaterIdle

\* lines 181-242: the type-name filter, the centre points, the sort, t.Start()
NumCollect ==
  /\ script = "Number" /\ pc = "start"
  /\ \E F \in SUBSET Openings :        \* type name contains RESA or OPENING
       IF F = {}
         THEN /\ pc' = "done"          \* forms.alert(..., exitscript=True)
              /\ TxSame
              /\ UNCHANGED element_data
         ELSE \E C \in SUBSET F :      \* get_center_point(elem) is not None
                /\ element_data' = SortByDistanceDesc(ToList(C, Openings), pos)
                /\ TxStart
                /\ pc' = "loop"
  /\ FrameNum
  /\ UNCHANGED <<script, unhandled, cancelled, idx, raised,
                 numInputs, opeNumber, numbered, level_success>>

NumOutcomes == {"noParam", "readOnly", "setRaises", "set"}

\* lines 246-305: one element of the loop
NumStep ==
  /\ script = "Number" /\ pc = "loop" /\ idx <= Len(element_data)
  /\ LET elem == element_data[idx] IN
     /\ \E o \in NumOutcomes :
          /\ o = "noParam" => opeNumber0[elem] = 0
          /\ IF o = "set" /\ ~AlreadyNumbered(opeNumber[elem])
               THEN /\ opeNumber' = [opeNumber EXCEPT ![elem] = NumberFor(idx, Len(numbered))]
                    /\ numbered' = Append(numbered, elem)
               ELSE UNCHANGED <<opeNumber, numbered>>
     /\ \E lvl \in BOOLEAN :            \* OPE_ABSOLUTE LEVEL written (success_count += 1) or not
          level_success' = IF lvl THEN level_success + 1 ELSE level_success
  /\ idx' = idx + 1
  /\ TxSame /\ FrameNum
  /\ UNCHANGED <<script, pc, unhandled, cancelled, raised, numInputs, element_data>>

\* lines 309-312: an exception outside the inner try blocks
NumFail ==
  /\ script = "Number" /\ pc = "loop" /\ idx <= Len(element_data)
  /\ TxRollBack
  /\ opeNumber' = opeNumber0 /\ numbered' = <<>> /\ level_success' = 0
  /\ raised' = raised \cup {idx}
  /\ pc' = "done"                       \* sys.exit()
  /\ FrameNum
  /\ UNCHANGED <<script, unhandled, cancelled, idx, numInputs, element_data>>

\* line 307: t.Commit()
NumCommit ==
  /\ script = "Number" /\ pc = "loop" /\ idx > Len(element_data)
  /\ TxCommit
  /\ pc' = "done"
  /\ FrameNum
  /\ UNCHANGED <<script, unhandled, cancelled, idx, raised, numInputs, numVars>>

NumberNext == NumCollect \/ NumStep \/ NumFail \/ NumCommit

\* --------------------------------------------------------- Replace & Align
\* a plausible slip: the old instance is never deleted
DeleteNothing(left, inst) == left

\* doc.Delete(instance.Id): the old instance leaves the document
DeleteInstance(left, inst) == left \ {inst}

InitReplace ==
  /\ SharedInit("Replace")
  /\ srcInView \in SUBSET Instances
  /\ hasTarget \in BOOLEAN
  /\ RepIdle
  /\ WsInputsIdle /\ WsIdle /\ NumInputsIdle /\ NumIdle /\ MassIdle /\ OpIdle /\ AvIdle /\ SecIdle
  /\ LaterIdle

\* lines 103-172: the source instances in the view, the target symbol, t.Start()
RepCollect ==
  /\ script = "Replace" /\ pc = "start"
  /\ source_instances' = ToList(srcInView, Instances)
  /\ IF source_instances' = <<>> \/ ~hasTarget
       THEN pc' = "done" /\ TxSame      \* return
       ELSE pc' = "loop" /\ TxStart
  /\ FrameRep
  /\ UNCHANGED <<script, unhandled, cancelled, idx, raised, repInputs,
                 sourceLeft, newInstances, replaced_count, failed_count>>

\* lines 174-178, 460-461: target_symbol.Activate() raises, the outer handler
RepActivateFails ==
  /\ script = "Replace" /\ pc = "loop" /\ idx = 1
  /\ TxRollBack
  /\ pc' = "done"
  /\ FrameRep
  /\ UNCHANGED <<script, unhandled, cancelled, idx, raised, repInputs, repVars>>

RepOutcomes == {"noCenter", "noLocationPoint", "createRaises", "laterRaises", "replaced"}

\* lines 183-447: one source instance
RepStep ==
  /\ script = "Replace" /\ pc = "loop" /\ idx <= Len(source_instances)
  /\ LET instance == source_instances[idx] IN
     \E o \in RepOutcomes :
       /\ newInstances' = IF o \in {"laterRaises", "replaced"}
                            THEN newInstances \cup {instance} ELSE newInstances
       /\ IF o = "replaced"
            THEN /\ sourceLeft' = DeleteInstance(sourceLeft, instance)
                 /\ replaced_count' = replaced_count + 1
                 /\ UNCHANGED failed_count
            ELSE /\ failed_count' = failed_count + 1
                 /\ UNCHANGED <<sourceLeft, replaced_count>>
       /\ raised' = IF o \in {"createRaises", "laterRaises"} THEN raised \cup {idx} ELSE raised
  /\ idx' = idx + 1
  /\ TxSame /\ FrameRep
  /\ UNCHANGED <<script, pc, unhandled, cancelled, repInputs, source_instances>>

\* line 449: t.Commit()
RepCommit ==
  /\ script = "Replace" /\ pc = "loop" /\ idx > Len(source_instances)
  /\ TxCommit
  /\ pc' = "done"
  /\ FrameRep
  /\ UNCHANGED <<script, unhandled, cancelled, idx, raised, repInputs, repVars>>

ReplaceNext == RepCollect \/ RepActivateFails \/ RepStep \/ RepCommit

\* --------------------------------------- Intersection Mass (both scripts)
MassScripts == {"Mass", "Mass07"}

\* the first script asks with forms.alert before each pick, the 07 one does not
AlertAnswers(s) == IF s = "Mass" THEN BOOLEAN ELSE {TRUE}

PickResults == {"picked", "cancel", "error"}

\* a plausible slip: 'Volume >= 0'
VolumeNotNegative(v) == v >= 0

\* if intersection_solid and intersection_solid.Volume > 0
VolumeOk(v) == v > 0

\* leaving 'with Transaction(...) as t' calls t.Dispose(); Revit rolls back
\* a transaction that is still open when it is disposed
TxDispose == IF txStatus = "started" THEN TxRollBack ELSE TxSame

InitMass ==
  /\ SharedInit("Mass") \/ SharedInit("Mass07")
  /\ MassIdle
  /\ WsInputsIdle /\ WsIdle /\ NumInputsIdle /\ NumIdle /\ RepInputsIdle /\ RepIdle
  /\ OpIdle /\ AvIdle /\ SecIdle
  /\ LaterIdle

\* phase 1: the structural pick
MassPickStruct ==
  /\ script \in MassScripts /\ pc = "start"
  /\ \E alert \in AlertAnswers(script), r \in PickResults :
       IF ~alert
         THEN /\ pc' = "pickMep"
              /\ UNCHANGED <<struct_element, cancelled>>
         ELSE /\ struct_element' = (r = "picked")
              /\ cancelled' = (r = "cancel")
              /\ pc' = IF r = "picked" THEN "pickMep" ELSE "done"
  /\ TxSame /\ FrameMass
  /\ UNCHANGED <<script, unhandled, idx, raised, mep_element, volume, masses>>

\* phase 2: the MEP pick, only if a structural element was picked
MassPickMep ==
  /\ script \in MassScripts /\ pc = "pickMep"
  /\ \E alert \in AlertAnswers(script), r \in PickResults :
       IF ~struct_element \/ ~alert
         THEN /\ pc' = "intersect"
              /\ UNCHANGED <<mep_element, cancelled>>
         ELSE /\ mep_element' = (r = "picked")
              /\ cancelled' = (r = "cancel")
              /\ pc' = IF r = "picked" THEN "intersect" ELSE "done"
  /\ TxSame /\ FrameMass
  /\ UNCHANGED <<script, unhandled, idx, raised, struct_element, volume, masses>>

\* ExecuteBooleanOperation raises, returns None, or returns a solid
BooleanResults == {"raises", "none", "solid"}

\* phase 3: the solids, the Boolean intersection, the volume test; on success
\* create_in_place_mass is entered and t.Start() called
MassIntersect ==
  /\ script \in MassScripts /\ pc = "intersect"
  /\ IF ~(struct_element /\ mep_element)
       THEN pc' = "done" /\ TxSame /\ UNCHANGED volume
       ELSE \E solids \in BOOLEAN, op \in BooleanResults, v \in Volumes :
              IF ~solids \/ op # "solid"
                THEN pc' = "done" /\ TxSame /\ UNCHANGED volume
                ELSE /\ volume' = v
                     /\ IF VolumeOk(v)
                          THEN pc' = "create" /\ TxStart
                          ELSE pc' = "done" /\ TxSame
  /\ FrameMass
  /\ UNCHANGED <<script, unhandled, cancelled, idx, raised, struct_element, mep_element, masses>>

\* create_in_place_mass after t.Start(): the DirectShape and t.Commit(), or
\* an exception that leaves the with block
MassCreate ==
  /\ script \in MassScripts /\ pc = "create"
  /\ \E ok \in BOOLEAN :
       IF ok THEN TxCommit /\ masses' = masses + 1
             ELSE TxDispose /\ UNCHANGED masses
  /\ pc' = "done"
  /\ FrameMass
  /\ UNCHANGED <<script, unhandled, cancelled, idx, raised, struct_element, mep_element, volume>>

MassNext == MassPickStruct \/ MassPickMep \/ MassIntersect \/ MassCreate

\* ------------------------------------------------------ Openings (two picks)
PickObjectsResults == {"cancel", "empty", "some"}

\* except Exception as e: print("Selection canceled."); selection = None
\* -- the name bound is 'selection'; selection1 stays as it was
Pick1Except(sel1) == sel1

\* except Exception as e: print("Second selection canceled."); selection2 = None
Pick2Except(sel2) == "None"

InitOpenings ==
  /\ SharedInit("Openings")
  /\ OpIdle
  /\ WsInputsIdle /\ WsIdle /\ NumInputsIdle /\ NumIdle /\ RepInputsIdle /\ RepIdle
  /\ MassIdle /\ AvIdle /\ SecIdle
  /\ LaterIdle

\* lines 73-92: the first PickObjects and 'if not selection1'
OpPick1 ==
  /\ script = "Openings" /\ pc = "start"
  /\ \E r \in PickObjectsResults :
       /\ cancelled' = (r = "cancel")
       /\ selection1' = IF r = "cancel" THEN Pick1Except(selection1) ELSE r
  /\ IF selection1' = "undefined"
       THEN unhandled' = TRUE /\ pc' = "done" /\ UNCHANGED element_ids_1   \* NameError
       ELSE /\ element_ids_1' = IF selection1' = "some" THEN "list" ELSE element_ids_1
            /\ pc' = "pick2"
            /\ UNCHANGED unhandled
  /\ TxSame /\ FrameOp
  /\ UNCHANGED <<script, idx, raised, selection2>>

\* lines 96-121: the second PickObjects, 'if not selection2', the two prints
OpPick2 ==
  /\ script = "Openings" /\ pc = "pick2"
  /\ \E r \in PickObjectsResults :
       /\ cancelled' = (cancelled \/ r = "cancel")
       /\ selection2' = IF r = "cancel" THEN Pick2Except(selection2) ELSE r
  /\ unhandled' = (selection2' = "some" /\ element_ids_1 = "undefined")    \* NameError
  /\ pc' = "done"
  /\ TxSame /\ FrameOp
  /\ UNCHANGED <<script, idx, raised, selection1, element_ids_1>>

OpeningsNext == OpPick1 \/ OpPick2

\* ------------------------------------------------------ Add Views to Sheet
\* the Add Views to Sheet button and its copy under Testing2.Panel
AvScripts == {"AddViews", "AddViews2"}

\* a plausible slip: the viewports created so far are kept
KeptViewports(created) == created

\* t.RollBack(): the viewports created in the transaction are undone
RolledBackViewports(created) == {}

InitAddViews ==
  /\ SharedInit("AddViews") \/ SharedInit("AddViews2")
  /\ AvIdle
  /\ WsInputsIdle /\ WsIdle /\ NumInputsIdle /\ NumIdle /\ RepInputsIdle /\ RepIdle
  /\ MassIdle /\ OpIdle /\ SecIdle
  /\ LaterIdle

\* lines 52-114: the sheet, the views, t.Start()
AvSelect ==
  /\ script \in AvScripts /\ pc = "start"
  /\ \E sheet \in BOOLEAN, S \in SUBSET Views :
       IF ~sheet \/ S = {}
         THEN pc' = "done" /\ TxSame /\ UNCHANGED selected_views    \* script.exit()
         ELSE /\ selected_views' = ToList(S, Views)
              /\ TxStart
              /\ pc' = "loop"
  /\ FrameAv
  /\ UNCHANGED <<script, unhandled, cancelled, idx, raised, viewports,
                 success_count, successPrinted>>

AvOutcomes == {"cannotAdd", "created", "raises"}

\* only the first script tests Viewport.CanAddViewToSheet
AvOutcomesOf(s) == IF s = "AddViews" THEN AvOutcomes ELSE AvOutcomes \ {"cannotAdd"}

\* lines 121-142, 153-156: one view of the loop; an exception leaves the loop
AvStep ==
  /\ script \in AvScripts /\ pc = "loop" /\ idx <= Len(selected_views)
  /\ \E o \in AvOutcomesOf(script) :
       CASE o = "cannotAdd" ->
              /\ idx' = idx + 1
              /\ TxSame
              /\ UNCHANGED <<pc, raised, viewports, success_count>>
         [] o = "created" ->
              /\ viewports' = viewports \cup {selected_views[idx]}
              /\ success_count' = success_count + 1
              /\ idx' = idx + 1
              /\ TxSame
              /\ UNCHANGED <<pc, raised>>
         [] o = "raises" ->
              /\ TxRollBack
              /\ viewports' = RolledBackViewports(viewports)
              /\ raised' = raised \cup {idx}
              /\ pc' = "done"
              /\ UNCHANGED <<idx, success_count>>
  /\ FrameAv
  /\ UNCHANGED <<script, unhandled, cancelled, selected_views, successPrinted>>

\* lines 144-151: t.Commit() and the success report
AvCommit ==
  /\ script \in AvScripts /\ pc = "loop" /\ idx > Len(selected_views)
  /\ TxCommit
  /\ successPrinted' = TRUE
  /\ pc' = "done"
  /\ FrameAv
  /\ UNCHANGED <<script, unhandled, cancelled, idx, raised, selected_views,
                 viewports, success_count>>

AddViewsNext == AvSelect \/ AvStep \/ AvCommit

\* ------------------------------------------------------- Section generator
\* a plausible slip: leaving the script on cancel instead of 'break'
AfterBreakExit == "done"

\* if pb.cancelled: break  -- control goes on to t.Commit()
AfterBreak == "commit"

InitSections ==
  /\ SharedInit("Sections")
  /\ SecIdle
  /\ WsInputsIdle /\ WsIdle /\ NumInputsIdle /\ NumIdle /\ RepInputsIdle /\ RepIdle
  /\ MassIdle /\ OpIdle /\ AvIdle
  /\ LaterIdle

\* lines 285-364: the picked elements (none: exit), t.Start()
SecStart ==
  /\ script = "Sections" /\ pc = "start"
  /\ \E n \in 0..NumElems :
       IF n = 0
         THEN pc' = "done" /\ TxSame /\ UNCHANGED selected_elems
         ELSE /\ selected_elems' = [i \in 1..n |-> i]
              /\ TxStart
              /\ pc' = "loop"
  /\ FrameSec
  /\ UNCHANGED <<script, unhandled, cancelled, idx, raised, new_views>>

SecOutcomes == {"cancelled", "created", "raises"}

\* lines 374-442: one element of the loop under the progress bar
SecStep ==
  /\ script = "Sections" /\ pc = "loop" /\ idx <= Len(selected_elems)
  /\ \E o \in SecOutcomes :
       CASE o = "cancelled" ->
              /\ pc' = AfterBreak
              /\ UNCHANGED <<idx, raised, new_views>>
         [] o = "created" ->
              /\ new_views' = new_views \cup {selected_elems[idx]}
              /\ idx' = idx + 1
              /\ UNCHANGED <<pc, raised>>
         [] o = "raises" ->
              /\ raised' = raised \cup {idx}
              /\ idx' = idx + 1
              /\ UNCHANGED <<pc, new_views>>
  /\ TxSame /\ FrameSec
  /\ UNCHANGED <<script, unhandled, cancelled, selected_elems>>

\* line 444: t.Commit(), after the loop ended or was broken out of
SecCommit ==
  /\ script = "Sections" /\ pc \in {"loop", "commit"}
  /\ pc = "loop" => idx > Len(selected_elems)
  /\ TxCommit
  /\ pc' = "done"
  /\ FrameSec
  /\ UNCHANGED <<script, unhandled, cancelled, idx, raised, secVars>>

SectionsNext == SecStart \/ SecStep \/ SecCommit

\* ----------------------------------------------------------- Color MEP Tags
\* get_tag_categories(): the duct, the pipe and the electrical tag categories
TagKinds == {"duct", "pipe", "elec"}

\* link_instance.Name, upper-cased, as the set of the four keys it contains
LinkNames == {{}, {"HVC"}, {"BLU"}, {"CLU"}, {"ELE"},
              {"HVC", "BLU"}, {"HVC", "ELE"}, {"BLU", "CLU"}}

\* what the first tagged reference of a tag points to
HostLinks == {Local, NoRef} \cup LinkNames

\* if "HVC" in link_name.upper(): green  elif "BLU" ...: magenta
\* elif "CLU" ...: orange  elif "ELE" ...: blue  else: skipped
ColorFor(link_name) ==
  IF "HVC" \in link_name THEN "green"
  ELSE IF "BLU" \in link_name THEN "magenta"
  ELSE IF "CLU" \in link_name THEN "orange"
  ELSE IF "ELE" \in link_name THEN "blue"
  ELSE "none"

InitTagColor ==
  /\ SharedInit("TagColor")
  /\ tagCategory \in [Tags -> TagKinds]
  /\ hostLink \in [Tags -> HostLinks]
  /\ TcIdle
  /\ EarlierIdle /\ TogIdle /\ CsvInputsIdle /\ CsvIdle

\* lines 64-114: the MEP tags of the active view; none: a dialog; t.Start()
TcCollect ==
  /\ script = "TagColor" /\ pc = "start"
  /\ \E S \in SUBSET Tags :
       /\ mep_tags' = ToList(S, Tags)
       /\ IF S = {} THEN pc' = "done" /\ TxSame
                    ELSE pc' = "loop" /\ TxStart
  /\ FrameTc
  /\ UNCHANGED <<script, unhandled, cancelled, idx, raised, tcInputs, tagColor>>

\* lines 125-175: one tag; the linked element's ElementId is the link
\* instance in the host document, so doc.GetElement finds it
TcStep ==
  /\ script = "TagColor" /\ pc = "loop" /\ idx <= Len(mep_tags)
  /\ LET tag == mep_tags[idx] IN
     \E fails \in BOOLEAN :
       IF fails
         THEN /\ raised' = raised \cup {idx}         \* except: skipped_count += 1
              /\ UNCHANGED tagColor
         ELSE /\ tagColor' =
                   IF hostLink[tag] \in {Local, NoRef} \/ ColorFor(hostLink[tag]) = "none"
                     THEN tagColor
                     ELSE [tagColor EXCEPT ![tag] = ColorFor(hostLink[tag])]
              /\ UNCHANGED raised
  /\ idx' = idx + 1
  /\ TxSame /\ FrameTc
  /\ UNCHANGED <<script, pc, unhandled, cancelled, tcInputs, mep_tags>>

\* line 177: t.Commit()
TcCommit ==
  /\ script = "TagColor" /\ pc = "loop" /\ idx > Len(mep_tags)
  /\ TxCommit
  /\ pc' = "done"
  /\ FrameTc
  /\ UNCHANGED <<script, unhandled, cancelled, idx, raised, tcInputs, tcVars>>

TagColorNext == TcCollect \/ TcStep \/ TcCommit

\* --------------------- Toggle Grids / Levels / Sections / Scope Boxes
\* a plausible slip: the state read is written back unchanged
SameState(state) == state

\* new_state = not current_state
NewState(state) == ~state

InitToggle ==
  /\ SharedInit("Toggle")
  /\ hidden0 \in [ToggleCategories -> BOOLEAN]
  /\ hidden = hidden0 /\ hiddenBefore = hidden0
  /\ category = "none" /\ current_state = FALSE
  /\ toggles = [c \in ToggleCategories |-> 0]
  /\ runs = 0
  /\ EarlierIdle /\ TcInputsIdle /\ TcIdle /\ CsvInputsIdle /\ CsvIdle

\* what a click meets before the transaction: a schedule, sheet or legend
\* view, a missing category, GetCategoryHidden raising, or the value read
ToggleReads == {"invalidView", "noCategory", "readRaises", "read"}

\* lines 7-33: one of the four buttons is clicked; the view type check, the
\* category, current_state, new_state, t.Start()
TogClick ==
  /\ script = "Toggle" /\ pc \in {"start", "done"} /\ runs < MaxRuns
  /\ runs' = runs + 1
  /\ hiddenBefore' = hidden
  /\ \E c \in ToggleCategories, r \in ToggleReads :
       /\ category' = c
       /\ IF r = "read"
            THEN /\ current_state' = hidden[c]
                 /\ TxStart
                 /\ pc' = "set"
            ELSE /\ txStatus' = "none"
                 /\ pc' = "done"
                 /\ UNCHANGED <<current_state, nStart, nCommit, nRollBack>>
  /\ FrameTog
  /\ UNCHANGED <<script, unhandled, cancelled, idx, raised, hidden0, hidden, toggles>>

\* lines 35-42: SetCategoryHidden and t.Commit(), or the exception and t.RollBack()
TogSet ==
  /\ script = "Toggle" /\ pc = "set"
  /\ \E ok \in BOOLEAN :
       IF ok
         THEN /\ hidden' = [hidden EXCEPT ![category] = NewState(current_state)]
              /\ toggles' = [toggles EXCEPT ![category] = @ + 1]
              /\ TxCommit
         ELSE /\ TxRollBack
              /\ UNCHANGED <<hidden, toggles>>
  /\ pc' = "done"
  /\ FrameTog
  /\ UNCHANGED <<script, unhandled, cancelled, idx, raised, category, hidden0,
                 hiddenBefore, current_state, runs>>

ToggleNext == TogClick \/ TogSet

\* ------------------------------------------------------------ CSV exports
\* Views Breakdown, Links (the CAD table) and Workset Audit (the detailed
\* report).  A data row is modelled by the set of elements it describes;
\* header rows are left out.
CsvScripts == {"ViewsCsv", "LinksCsv", "WsAuditCsv"}

\* the orders in which a dict can hand out the keys in G
KeyOrders(G) ==
  {s \in [1..Cardinality(G) -> G] : \A i, j \in 1..Cardinality(G) : i # j => s[i] # s[j]}

\* data.append([view_name, view_category, sheet_info]): a row for one view
RowOfOne(e) == {e}

\* a plausible slip: the row lists the first instance only
FirstOfGroup(name, insts, g) ==
  LET members == {e \in insts : g[e] = name}
  IN {e \in members : \A f \in members : e <= f}

\* element_ids = [str(cad.Id.IntegerValue) for cad in cad_list]; count =
\* len(cad_list): one row for all the instances with this name
GroupRow(name, insts, g) == {e \in insts : g[e] = name}

\* if not elements: one 'No elements found' row; else a row per element
RECURSIVE RowsOfWorkset(_)
RowsOfWorkset(elements) ==
  IF elements = <<>> THEN <<>>
  ELSE <<RowOfOne(Head(elements))>> \o RowsOfWorkset(Tail(elements))

InitCsv ==
  /\ \/ /\ SharedInit("ViewsCsv")
        /\ groupOf = [e \in CsvElems |-> 1]
        /\ inSchedules \in SUBSET CsvElems
     \/ /\ SharedInit("LinksCsv") \/ SharedInit("WsAuditCsv")
        /\ groupOf \in [CsvElems -> CsvGroups]
        /\ inSchedules = {}
  /\ queried \in SUBSET CsvElems
  /\ CsvIdle
  /\ EarlierIdle /\ TcInputsIdle /\ TcIdle /\ TogIdle

\* Views Breakdown lines 58-83: the views and schedules that pass the
\* filters, all_views; none: exit
VbCollect ==
  /\ script = "ViewsCsv" /\ pc = "start"
  /\ csv_items' = ToList(queried, CsvElems) \o ToList(inSchedules, CsvElems)
  /\ pc' = IF csv_items' = <<>> THEN "done" ELSE "loop"
  /\ TxSame /\ FrameCsv
  /\ UNCHANGED <<script, unhandled, cancelled, idx, raised, csvInputs, csv_data>>

\* Views Breakdown lines 97-124: one view, one row
VbRow ==
  /\ script = "ViewsCsv" /\ pc = "loop" /\ idx <= Len(csv_items)
  /\ csv_data' = Append(csv_data, RowOfOne(csv_items[idx]))
  /\ idx' = idx + 1
  /\ TxSame /\ FrameCsv
  /\ UNCHANGED <<script, pc, unhandled, cancelled, raised, csvInputs, csv_items>>

\* Links lines 323-347: the CAD instances, grouped by name; none: the
\* 'No CAD instances found' row
LkCollect ==
  /\ script = "LinksCsv" /\ pc = "start"
  /\ IF queried = {}
       THEN /\ csv_data' = <<{}>>
            /\ UNCHANGED csv_items
       ELSE /\ csv_items' \in KeyOrders({groupOf[e] : e \in queried})
            /\ UNCHANGED csv_data
  /\ pc' = "loop"
  /\ TxSame /\ FrameCsv
  /\ UNCHANGED <<script, unhandled, cancelled, idx, raised, csvInputs>>

\* Links lines 350-394: one CAD name, one row
LkRow ==
  /\ script = "LinksCsv" /\ pc = "loop" /\ idx <= Len(csv_items)
  /\ csv_data' = Append(csv_data, GroupRow(csv_items[idx], queried, groupOf))
  /\ idx' = idx + 1
  /\ TxSame /\ FrameCsv
  /\ UNCHANGED <<script, pc, unhandled, cancelled, raised, csvInputs, csv_items>>

\* Workset Audit lines 475-530: detailed_elements, one entry per workset
WaCollect ==
  /\ script = "WsAuditCsv" /\ pc = "start"
  /\ csv_items' \in KeyOrders(CsvGroups)
  /\ pc' = "loop"
  /\ TxSame /\ FrameCsv
  /\ UNCHANGED <<script, unhandled, cancelled, idx, raised, csvInputs, csv_data>>

\* Workset Audit lines 565-576: the rows of one workset
WaRows ==
  /\ script = "WsAuditCsv" /\ pc = "loop" /\ idx <= Len(csv_items)
  /\ LET elements == ToList(GroupRow(csv_items[idx], queried, groupOf), CsvElems)
     IN csv_data' = csv_data \o (IF elements = <<>> THEN <<{}>> ELSE RowsOfWorkset(elements))
  /\ idx' = idx + 1
  /\ TxSame /\ FrameCsv
  /\ UNCHANGED <<script, pc, unhandled, cancelled, raised, csvInputs, csv_items>>

\* the rows are written to the file
CsvWrite ==
  /\ script \in CsvScripts /\ pc = "loop" /\ idx > Len(csv_items)
  /\ pc' = "done"
  /\ TxSame /\ FrameCsv
  /\ UNCHANGED <<script, unhandled, cancelled, idx, raised, csvInputs, csvVars>>

CsvNext == VbCollect \/ VbRow \/ LkCollect \/ LkRow \/ WaCollect \/ WaRows \/ CsvWrite

\* ------------------------------------------------------------ the program
Init == \/ InitWorkset
        \/ InitNumber
        \/ InitReplace
        \/ InitMass
        \/ InitOpenings
        \/ InitAddViews
        \/ InitSections
        \/ InitTagColor
        \/ InitToggle
        \/ InitCsv

Next == \/ WorksetNext
        \/ NumberNext
        \/ ReplaceNext
        \/ MassNext
        \/ OpeningsNext
        \/ AddViewsNext
        \/ SectionsNext
        \/ TagColorNext
        \/ ToggleNext
        \/ CsvNext

Spec == Init /\ [][Next]_vars

\* the scripts run to their end: every enabled step is eventually taken
FairSpec == Spec /\ WF_vars(Next)

\* ================================================================ claims

\* C1 (as stated): Workset Elements Delete starts a transaction or deletes
\* an element only if the 'Confirm Deletion' dialog returned Yes.
C1_OnlyYesDeletes ==
  script = "Workset" => ((nStart > 0 \/ deleted # {}) => result = "Yes")

C5_CancelHandled ==
  cancelled => (~unhandled /\ nStart = 0)

\* C6 (as stated): after a committed Openings Caracterization run the k-th
\* element that received a number holds the number k.
C6_Sequential ==
  (script = "Number" /\ pc = "done" /\ txStatus = "committed") =>
    \A k \in 1..Len(numbered) : opeNumber[numbered[k]] = k

\* C7: an element whose OPE_NUMBER is non-zero before the run keeps that
\* number, at every point of the run.
C7_KeepsNumber ==
  script = "Number" =>
    \A e \in Openings : opeNumber0[e] # 0 => opeNumber[e] = opeNumber0[e]

\* C7 witness: a committed run that met an already numbered element and
\* numbered another one.
C7_Witness ==
  /\ script = "Number" /\ pc = "done" /\ txStatus = "committed"
  /\ \E e \in Range(element_data) : opeNumber0[e] # 0
  /\ numbered # <<>>

\* C8: of two elements numbered by the run, the one further from the
\* origin holds the smaller number.
C8_FartherSmaller ==
  script = "Number" =>
    \A a, b \in Range(numbered) :
      Distance(pos[a]) > Distance(pos[b]) => opeNumber[a] < opeNumber[b]

\* C8 witness: a committed run that numbered two elements at different
\* distances from the origin.
C8_Witness ==
  /\ script = "Number" /\ pc = "done" /\ txStatus = "committed"
  /\ \E a, b \in Range(numbered) : Distance(pos[a]) > Distance(pos[b])

C10_MassOnlyIfIntersect ==
  script \in MassScripts =>
    /\ (nStart > 0 \/ masses > 0) => (struct_element /\ mep_element /\ volume > 0)
    /\ masses <= nCommit

\* C10 witness: a run that picked both elements, found a positive volume
\* and committed the mass.
C10_Witness ==
  /\ script \in MassScripts /\ pc = "done"
  /\ masses = 1 /\ txStatus = "committed" /\ volume > 0

\* C11 (as stated): after a committed Color MEP Tags run in which no tag
\* raised, a duct tag hosted in a link whose name contains HVC is green, a
\* pipe tag hosted in a BLU link is magenta, a pipe tag hosted in a CLU link
\* is orange and an electrical tag hosted in an ELE link is blue.
C11_TagsColored ==
  (script = "TagColor" /\ pc = "done" /\ txStatus = "committed" /\ raised = {}) =>
    \A t \in Range(mep_tags) :
      hostLink[t] \in LinkNames =>
        /\ (tagCategory[t] = "duct" /\ "HVC" \in hostLink[t]) => tagColor[t] = "green"
        /\ (tagCategory[t] = "pipe" /\ "BLU" \in hostLink[t]) => tagColor[t] = "magenta"
        /\ (tagCategory[t] = "pipe" /\ "CLU" \in hostLink[t]) => tagColor[t] = "orange"
        /\ (tagCategory[t] = "elec" /\ "ELE" \in hostLink[t]) => tagColor[t] = "blue"

\* C12: a successful run of a toggle leaves its category's hidden flag at
\* the negation of the value it had before the run and touches no other
\* category; a run that did not commit changes nothing; so a category is
\* back at its original visibility after every second successful run.
C12_ToggleNegates ==
  script = "Toggle" =>
    /\ (pc = "done" /\ txStatus = "committed") =>
         hidden = [hiddenBefore EXCEPT ![category] = ~hiddenBefore[category]]
    /\ (pc = "done" /\ txStatus # "committed") => hidden = hiddenBefore
    /\ \A c \in ToggleCategories :
         hidden[c] = IF toggles[c] % 2 = 0 THEN hidden0[c] ELSE ~hidden0[c]

\* C12 witness: two consecutive successful runs of the same toggle have
\* restored the original visibility.
C12_Witness ==
  /\ script = "Toggle" /\ pc = "done" /\ txStatus = "committed" /\ runs = 2
  /\ toggles[category] = 2
  /\ hidden = hidden0 /\ hiddenBefore # hidden0

\* C13 (as stated): in a finished per-element CSV export every data row
\* describes exactly one queried element, and no element is described by
\* two rows.
C13_OneRowOneElement ==
  (script \in CsvScripts /\ pc = "done") =>
    /\ \A i \in 1..Len(csv_data) : Cardinality(csv_data[i]) = 1
    /\ \A i, j \in 1..Len(csv_data) : i # j => csv_data[i] \cap csv_data[j] = {}

\* C13 (amended): Views Breakdown writes one row per entry of all_views,
\* each describing that one view.  The Links CAD table writes one row per
\* distinct DWG name, describing all the instances with that name, so that
\* every CAD instance is described by exactly one row, and a single
\* placeholder row when there is no CAD instance.  The Workset Audit report
\* writes one row per listed element and one placeholder row per workset
\* without listed elements.
C13_RowsPerExport ==
  /\ (script = "ViewsCsv" /\ pc = "done") =>
       /\ Len(csv_data) = Len(csv_items)
       /\ \A i \in 1..Len(csv_data) : csv_data[i] = {csv_items[i]}
       /\ Range(csv_items) = queried \cup inSchedules
  /\ (script = "LinksCsv" /\ pc = "done") =>
       IF queried = {} THEN csv_data = <<{}>>
       ELSE /\ \A i \in 1..Len(csv_data) :
                 /\ csv_data[i] # {}
                 /\ \E n \in CsvGroups : csv_data[i] = {e \in queried : groupOf[e] = n}
            /\ \A e \in queried :
                 Cardinality({i \in 1..Len(csv_data) : e \in csv_data[i]}) = 1
  /\ (script = "WsAuditCsv" /\ pc = "done") =>
       /\ \A i \in 1..Len(csv_data) : Cardinality(csv_data[i]) <= 1 /\ csv_data[i] \subseteq queried
       /\ \A e \in queried :
            Cardinality({i \in 1..Len(csv_data) : e \in csv_data[i]}) = 1
       /\ Cardinality({i \in 1..Len(csv_data) : csv_data[i] = {}})
            = Cardinality({w \in CsvGroups : \A e \in queried : groupOf[e] # w})

\* C13 witness: a finished Links export with a row that describes two CAD
\* instances of the same name.
C13_Witness ==
  /\ script = "LinksCsv" /\ pc = "done"
  /\ \E i \in 1..Len(csv_data) : Cardinality(csv_data[i]) = 2

\* C14: Add Views to Sheet is all-or-nothing: once creating a viewport has
\* raised, the transaction is rolled back, no viewport of the run is left
\* on the sheet and no success message is printed; the success message is
\* printed only with the transaction committed.
C14_AllOrNothing ==
  script \in AvScripts =>
    /\ raised # {} => (txStatus = "rolledback" /\ viewports = {} /\ ~successPrinted)
    /\ successPrinted => (txStatus = "committed" /\ raised = {})
    /\ txStatus = "committed" => Cardinality(viewports) = success_count

\* C14 witness: a run that had created a viewport when a later view raised,
\* and ended rolled back with no viewport left.
C14_Witness ==
  /\ script \in AvScripts /\ pc = "done" /\ txStatus = "rolledback"
  /\ raised # {} /\ success_count > 0 /\ viewports = {}
====
